---- MODULE Spec2Model ----
(***************************************************************************)
(* Model of imagecaption_generator_aiml.py: the decoder's attention masks, *)
(* the masked loss / accuracy, the learning-rate schedule, the per-caption *)
(* training step and the two greedy caption loops.                         *)
(*                                                                         *)
(* Tensors are functions over 0-based index ranges, as in the source.      *)
(* float32 values are modelled as exact fractions [num, den]; a float      *)
(* division by zero yields the IEEE special values NaN / Inf, as           *)
(* TensorFlow does (no exception is raised).                               *)
(***************************************************************************)
EXTENDS Integers, Sequences, FiniteSets, TLC

VARIABLES
    \* the last forward call of the decoder: its arguments and what it built
    decIn, decOut,
    \* the greedy caption loops
    gen_fn,            \* which generate_caption is running: "none", "sample", "path"
    gen_pc,            \* "idle", "loop", "exit", "done", "error"
    decoded_caption,   \* generate_caption(): the growing caption string
    loop_i,            \* generate_caption(): the loop variable i
    dec_calls,         \* decoder calls made by the running caption loop
    start_token,       \* generate_caption(image_path, ..): the decoder input
    result,            \* generate_caption(image_path, ..): the list of words
    caption,           \* the caption string the function printed / returned
    gen_log,           \* the model calls the running generate_caption has made
    \* the last call of calculate_loss / calculate_accuracy
    lossIn, lossOut,
    \* the learning-rate schedule and the optimizer step that drives it
    lr_schedule,       \* LRSchedule object: post_warmup_learning_rate, warmup_steps
    iterations,        \* the optimizer's step counter
    lr_out,            \* the last evaluation of lr_schedule(step)
    \* ImageCaptioningModel: train_step / test_step
    step_fn,           \* the step that is running: "none", "train", "test"
    step_pc,           \* "idle", "forward", "apply", "trackers"
    batch_seq,         \* the captions of the batch, one row per caption
    cap_i,             \* the loop variable i over the captions
    batch_loss,        \* accumulated loss: value and the captions it is built from
    batch_acc,         \* accumulated accuracy
    loss,              \* loss of the last forward pass: value and its caption
    weights,           \* encoder + decoder parameters: number of updates applied
    loss_tracker,      \* keras.metrics.Mean: total and count
    acc_tracker,       \* keras.metrics.Mean: total and count
    step_log,          \* what the running step did so far, in order
    steps_done,        \* number of finished train_step / test_step calls
    train_steps,       \* number of finished train_step calls
    \* map_image_caption
    caption_data,      \* the lines of the caption file
    map_pc,            \* "idle", "loop", "returned"
    c_i,               \* position of the loop over caption_data
    mapped_captions,   \* image name -> list of its captions
    text_data,         \* all captions kept, with the markers added
    skip_these_images  \* images that had a caption out of the length range

(***************************************************************************)
(* Bounds                                                                  *)
(***************************************************************************)
\* largest batch size drawn for a decoder call
MaxB == 2
\* largest decoder input length drawn for a decoder call
MaxL == 3
\* number of spatial positions of the encoder output (keys of cross-attention)
NumPositions == 2
\* scale of the per-position cross-entropy values drawn (in fixed units)
MaxCE == 1
\* largest warmup_steps drawn for a schedule
MaxWarmup == 100
\* captions per image (num_captions_per_image, 5 in the source, scaled down)
NumCaptions == 2
\* number of train_step / test_step calls explored
MaxSteps == 2

(***************************************************************************)
(* Small tensor helpers                                                    *)
(***************************************************************************)
\* tf.range(n)
Range(n) == [k \in 0..(n - 1) |-> k]

\* tf.cast(<bool>, int32)
CastInt(b) == IF b THEN 1 ELSE 0

\* mutant: the larger of the two, a position allowed by either mask is allowed
Maximum(a, b) == IF a >= b THEN a ELSE b

\* tf.minimum on scalars
Minimum(a, b) == IF a <= b THEN a ELSE b

\* the set of boolean tensors of shape (B, L)
BoolTensors(B, L) == [0..(B - 1) -> [0..(L - 1) -> BOOLEAN]]

\* an optional argument: None, or a given value
None == [given |-> FALSE, val |-> <<>>]
Some(v) == [given |-> TRUE, val |-> v]

(***************************************************************************)
(* DecoderClass / TransformerDecoderBlock                                  *)
(***************************************************************************)
\* mutant: the comparison is turned round, a query sees the keys after it
CausalUpper(B, L) ==
    LET i == Range(L)
        j == Range(L)
        mask == [a \in 0..(L - 1) |-> [c \in 0..(L - 1) |-> CastInt(i[a] <= j[c])]]
    IN  [b \in 0..(B - 1) |-> mask]

\* mutant: strict comparison, the diagonal is masked out
CausalStrict(B, L) ==
    LET i == Range(L)
        j == Range(L)
        mask == [a \in 0..(L - 1) |-> [c \in 0..(L - 1) |-> CastInt(i[a] > j[c])]]
    IN  [b \in 0..(B - 1) |-> mask]

\* get_causal_attention_mask: i >= j on tf.range(L), reshaped to (1, L, L)
\* and tiled by (B, 1, 1)
get_causal_attention_mask(B, L) ==
    LET i == Range(L)
        j == Range(L)
        mask == [a \in 0..(L - 1) |-> [c \in 0..(L - 1) |-> CastInt(i[a] >= j[c])]]
        reshaped == [z \in 0..0 |-> mask]
    IN  [b \in 0..(B - 1) |-> reshaped[b % 1]]

\* DecoderClass.call, up to the two attention calls: the masks it builds and
\* whether reading them succeeds.  B, L: shape of the token input; mask: the
\* optional (B, L) boolean padding mask.
\*   combined_mask and padding_mask are assigned only inside
\*   `if mask is not None`; the first attention call reads combined_mask, so
\*   with mask = None Python raises UnboundLocalError there.
DecoderCall(B, L, mask) ==
    LET causal_mask == get_causal_attention_mask(B, L)
        \* mask[:, :, tf.newaxis]  -> shape (B, L, 1)
        padding_mask == [b \in 0..(B - 1) |-> [i \in 0..(L - 1) |->
                            [z \in 0..0 |-> CastInt(mask.val[b][i])]]]
        \* mask[:, tf.newaxis, :]  -> shape (B, 1, L)
        expanded == [b \in 0..(B - 1) |-> [z \in 0..0 |->
                            [j \in 0..(L - 1) |-> CastInt(mask.val[b][j])]]]
        \* tf.minimum broadcasts (B, 1, L) against (B, L, L)
        combined_mask == [b \in 0..(B - 1) |-> [i \in 0..(L - 1) |->
                            [j \in 0..(L - 1) |->
                                Minimum(expanded[b][0][j], causal_mask[b][i][j])]]]
        \* attention_mask = padding_mask of shape (B, L, 1) broadcast by the
        \* attention layer to (B, L, NumPositions): query i, key j
        cross_mask == [b \in 0..(B - 1) |-> [i \in 0..(L - 1) |->
                            [j \in 0..(NumPositions - 1) |-> padding_mask[b][i][0]]]]
    IN  IF mask.given
        THEN [status |-> "ok",
              causal_mask |-> causal_mask,
              self_mask |-> Some(combined_mask),
              cross_mask |-> Some(cross_mask)]
        ELSE [status |-> "UnboundLocalError",
              causal_mask |-> causal_mask,
              self_mask |-> None,
              cross_mask |-> None]

\* the state before any decoder call
NoCall == [called |-> FALSE, B |-> 0, L |-> 0, mask |-> None]
NoOut == [status |-> "none", causal_mask |-> <<>>, self_mask |-> None, cross_mask |-> None]

decVars == <<decIn, decOut>>

DecInit ==
    /\ decIn = NoCall
    /\ decOut = NoOut

\* the arguments of one forward call: a (B, L) token input with a padding
\* mask, or without one
DecoderArgs(maxB, maxL) ==
    UNION { { [called |-> FALSE, B |-> B, L |-> L, mask |-> Some(m)] :
                m \in BoolTensors(B, L) }
            \cup { [called |-> FALSE, B |-> B, L |-> L, mask |-> None] } :
            <<B, L>> \in (1..maxB) \X (0..maxL) }

\* a forward call of the decoder is about to be made
DecoderCallInit ==
    /\ decIn \in DecoderArgs(MaxB, MaxL)
    /\ decOut = NoOut

\* one forward call of the decoder with a padding mask
DecoderCallMasked ==
    /\ ~decIn.called
    /\ decIn.mask.given
    /\ decIn' = [decIn EXCEPT !.called = TRUE]
    /\ decOut' = DecoderCall(decIn.B, decIn.L, decIn.mask)

\* one forward call of the decoder without a padding mask (mask=None)
DecoderCallNoMask ==
    /\ ~decIn.called
    /\ ~decIn.mask.given
    /\ decIn' = [decIn EXCEPT !.called = TRUE]
    /\ decOut' = DecoderCall(decIn.B, decIn.L, decIn.mask)

(***************************************************************************)
(* Tokenizer (TextVectorization) and caption strings                       *)
(***************************************************************************)
\* Fixed length allowed for any sequence (25 in the source, scaled down)
SEQ_LENGTH == 5

\* vectorization.get_vocabulary(): index 0 is the padding token "", index 1
\* the out-of-vocabulary token, then the adapted words
vocab == [k \in 0..4 |->
            CASE k = 0 -> ""
              [] k = 1 -> "[UNK]"
              [] k = 2 -> "a"
              [] k = 3 -> "<start>"
              [] k = 4 -> "<end>"]

\* index_lookup = dict(zip(range(len(vocab)), vocab))
index_lookup == vocab

\* token ids the decoder's arg-max can yield
TokenIds == DOMAIN vocab

\* A caption string is a sequence of units: the blank " " or a word of the
\* vocabulary (words hold no blank and only the markers hold "<").
SP == " "

\* standardize: lower-case and strip punctuation except "<" and ">"
standardize(w) == IF w = "[UNK]" THEN "unk" ELSE w

\* str.split(): the words of a string
RECURSIVE Words(_)
Words(s) ==
    IF s = <<>> THEN <<>>
    ELSE IF Head(s) = SP THEN Words(Tail(s))
    ELSE <<Head(s)>> \o Words(Tail(s))

\* vocabulary lookup of one standardized word, 1 when out of vocabulary
TokenOf(w) ==
    IF \E k \in TokenIds : k >= 2 /\ vocab[k] = w
    THEN CHOOSE k \in TokenIds : k >= 2 /\ vocab[k] = w
    ELSE 1

\* vectorization([s]): ids of the words, truncated / zero-padded to SEQ_LENGTH
vectorization(s) ==
    LET ws == Words(s)
    IN  [k \in 0..(SEQ_LENGTH - 1) |->
            IF k < Len(ws) THEN TokenOf(standardize(ws[k + 1])) ELSE 0]

\* str.replace(pat, ""): left to right, non-overlapping
RECURSIVE Replace(_, _)
Replace(s, pat) ==
    IF Len(s) < Len(pat) THEN s
    ELSE IF SubSeq(s, 1, Len(pat)) = pat
         THEN Replace(SubSeq(s, Len(pat) + 1, Len(s)), pat)
         ELSE <<Head(s)>> \o Replace(Tail(s), pat)

\* str.lstrip() / str.rstrip() / str.strip()
RECURSIVE LStrip(_)
LStrip(s) == IF s # <<>> /\ Head(s) = SP THEN LStrip(Tail(s)) ELSE s

RECURSIVE RStrip(_)
RStrip(s) == IF s # <<>> /\ s[Len(s)] = SP THEN RStrip(SubSeq(s, 1, Len(s) - 1)) ELSE s

Strip(s) == LStrip(RStrip(s))

\* " " + sampled_token ; the padding token is the empty string
Appended(s, w) == IF w = "" THEN s \o <<SP>> ELSE s \o <<SP, w>>

\* " ".join(words)
RECURSIVE Join(_)
Join(ws) ==
    IF ws = <<>> THEN <<>>
    ELSE IF Len(ws) = 1 THEN (IF ws[1] = "" THEN <<>> ELSE <<ws[1]>>)
    ELSE (IF ws[1] = "" THEN <<SP>> ELSE <<ws[1], SP>>) \o Join(Tail(ws))

(***************************************************************************)
(* generate_caption() : greedy decoding of a sampled validation image      *)
(***************************************************************************)
max_decoded_sentence_length == SEQ_LENGTH - 1

GenInit ==
    /\ gen_fn = "none"
    /\ gen_pc = "idle"
    /\ decoded_caption = <<>>
    /\ loop_i = 0
    /\ dec_calls = 0
    /\ start_token = <<>>
    /\ result = <<>>
    /\ caption = <<>>
    /\ gen_log = <<>>

\* up to the loop: CNN, encoder, decoded_caption = "<start> "
GenerateCaption_Start ==
    /\ gen_pc \in {"idle", "done", "error"}
    /\ gen_fn' = "sample"
    /\ gen_pc' = "loop"
    /\ decoded_caption' = <<"<start>", SP>>
    /\ loop_i' = 0
    /\ dec_calls' = 0
    /\ start_token' = <<>>
    /\ result' = <<>>
    /\ caption' = <<>>
    /\ gen_log' = <<[op |-> "cnn_model", out |-> "img"],
                    [op |-> "encoder", inp |-> "img", out |-> "encoded_img"]>>
    /\ UNCHANGED decVars

\* the decoder call of one iteration, on the caption string decoded so far:
\* the string is tokenized again, the mask is taken from the tokens
greedy_decoder_call(decoded) ==
    LET full == vectorization(decoded)
        \* [:, :-1]
        tokenized_caption == [b \in 0..0 |-> [k \in 0..(SEQ_LENGTH - 2) |-> full[k]]]
        mask == [b \in 0..0 |-> [k \in 0..(SEQ_LENGTH - 2) |-> tokenized_caption[b][k] # 0]]
    IN  [tokenized_caption |-> tokenized_caption,
         decIn |-> [called |-> TRUE, B |-> 1, L |-> SEQ_LENGTH - 1, mask |-> Some(mask)],
         decOut |-> DecoderCall(1, SEQ_LENGTH - 1, Some(mask))]

\* one iteration of `for i in range(max_decoded_sentence_length)`
GenerateCaption_Step ==
    /\ gen_fn = "sample"
    /\ gen_pc = "loop"
    /\ loop_i < max_decoded_sentence_length
    /\ LET call == greedy_decoder_call(decoded_caption).decOut
       IN  /\ decIn' = greedy_decoder_call(decoded_caption).decIn
           /\ decOut' = call
           /\ dec_calls' = dec_calls + 1
           /\ IF call.status # "ok"
              THEN /\ gen_pc' = "error"
                   /\ gen_log' = Append(gen_log, [op |-> "decoder",
                                                  encoder_outputs |-> "encoded_img",
                                                  position |-> loop_i,
                                                  sampled_token_index |-> -1])
                   /\ UNCHANGED <<decoded_caption, loop_i>>
              ELSE \E sampled_token_index \in TokenIds :
                     LET sampled_token == index_lookup[sampled_token_index]
                     IN  /\ gen_log' = Append(gen_log, [op |-> "decoder",
                                                  encoder_outputs |-> "encoded_img",
                                                  position |-> loop_i,
                                                  sampled_token_index |-> sampled_token_index])
                         /\ IF sampled_token = "<end>"
                             THEN /\ gen_pc' = "exit"
                                  /\ UNCHANGED <<decoded_caption, loop_i>>
                             ELSE /\ decoded_caption' = Appended(decoded_caption, sampled_token)
                                  /\ loop_i' = loop_i + 1
                                  /\ gen_pc' = IF loop_i + 1 < max_decoded_sentence_length
                                               THEN "loop" ELSE "exit"
    /\ UNCHANGED <<gen_fn, start_token, result, caption>>

\* after the loop: both replace calls, strip, print
GenerateCaption_Finish ==
    /\ gen_fn = "sample"
    /\ gen_pc = "exit"
    /\ caption' = Strip(Replace(Replace(decoded_caption, <<"<start>", SP>>), <<SP, "<end>">>))
    /\ gen_pc' = "done"
    /\ UNCHANGED <<gen_fn, decoded_caption, loop_i, dec_calls, start_token, result, gen_log>>
    /\ UNCHANGED decVars

(***************************************************************************)
(* generate_caption(image_path, loaded_model, vectorization)               *)
(***************************************************************************)
\* up to the loop: CNN features, start_token = vectorization(['<start>'])
GenerateCaptionPath_Start ==
    /\ gen_pc \in {"idle", "done", "error"}
    /\ gen_fn' = "path"
    /\ gen_pc' = "loop"
    /\ start_token' = [b \in 0..0 |-> vectorization(<<"<start>">>)]
    /\ result' = <<>>
    /\ dec_calls' = 0
    /\ decoded_caption' = <<>>
    /\ loop_i' = 0
    /\ caption' = <<>>
    /\ gen_log' = <<[op |-> "cnn_model", out |-> "img_embed"]>>
    /\ UNCHANGED decVars

\* one iteration of `while True`: the decoder is called with three positional
\* arguments (inputs, encoder_outputs, training), so mask stays None
GenerateCaptionPath_Step ==
    /\ gen_fn = "path"
    /\ gen_pc = "loop"
    /\ LET call == DecoderCall(1, SEQ_LENGTH, None)
       IN  /\ decIn' = [called |-> TRUE, B |-> 1, L |-> SEQ_LENGTH, mask |-> None]
           /\ decOut' = call
           /\ dec_calls' = dec_calls + 1
           /\ gen_log' = Append(gen_log, [op |-> "decoder", encoder_outputs |-> "img_embed"])
           /\ IF call.status # "ok"
              THEN /\ gen_pc' = "error"
                   /\ UNCHANGED <<start_token, result, caption>>
              ELSE \E output \in [0..0 -> [0..(SEQ_LENGTH - 1) -> TokenIds]] :
                     LET word == vocab[output[0][SEQ_LENGTH - 1]]
                     IN  /\ result' = Append(result, word)
                         /\ IF word = "<end>" \/ Len(result') >= SEQ_LENGTH
                            THEN /\ gen_pc' = "done"
                                 /\ caption' = Join(result')
                                 /\ UNCHANGED start_token
                            ELSE /\ gen_pc' = "loop"
                                 /\ start_token' = output
                                 /\ UNCHANGED caption
    /\ UNCHANGED <<gen_fn, decoded_caption, loop_i>>

(***************************************************************************)
(* float32 arithmetic: exact fractions, IEEE special values on x / 0       *)
(***************************************************************************)
NaN == [kind |-> "nan", num |-> 0, den |-> 0]
Inf == [kind |-> "inf", num |-> 0, den |-> 0]
Frac(a, b) == [kind |-> "finite", num |-> a, den |-> b]

\* a / b on non-negative floats
Div(a, b) ==
    IF b # 0 THEN Frac(a, b)
    ELSE IF a = 0 THEN NaN ELSE Inf

\* equality of two float values (NaN equals nothing)
FloatEq(x, y) ==
    \/ x.kind = "finite" /\ y.kind = "finite" /\ x.num * y.den = y.num * x.den
    \/ x.kind = "inf" /\ y.kind = "inf"

\* tf.reduce_sum over a (B, L) tensor
RECURSIVE SumRow(_, _)
SumRow(row, n) == IF n = 0 THEN 0 ELSE row[n - 1] + SumRow(row, n - 1)

RECURSIVE SumRows(_, _, _)
SumRows(t, B, L) == IF B = 0 THEN 0 ELSE SumRow(t[B - 1], L) + SumRows(t, B - 1, L)

reduce_sum(t, B, L) == SumRows(t, B, L)

(***************************************************************************)
(* ImageCaptioningModel.calculate_loss / calculate_accuracy                *)
(***************************************************************************)
\* length of the shifted target of a caption: batch_seq[:, 1:]
TargetLen == SEQ_LENGTH - 1

\* mutant: the loss is averaged over the full padded length
calculate_loss_full_length(ce, mask, B, L) ==
    LET m == [b \in 0..(B - 1) |-> [k \in 0..(L - 1) |-> CastInt(mask[b][k])]]
        masked == [b \in 0..(B - 1) |-> [k \in 0..(L - 1) |-> ce[b][k] * m[b][k]]]
    IN  Div(reduce_sum(masked, B, L), B * L)

\* calculate_loss: ce is self.loss(y_true, y_pred), the per-position
\* cross-entropy (reduction="none")
calculate_loss(ce, mask, B, L) ==
    LET m == [b \in 0..(B - 1) |-> [k \in 0..(L - 1) |-> CastInt(mask[b][k])]]
        masked == [b \in 0..(B - 1) |-> [k \in 0..(L - 1) |-> ce[b][k] * m[b][k]]]
    IN  Div(reduce_sum(masked, B, L), reduce_sum(m, B, L))

\* mutant: the padding mask is not applied to the matches
calculate_accuracy_unmasked(y_true, argmax, mask, B, L) ==
    LET eq == [b \in 0..(B - 1) |-> [k \in 0..(L - 1) |-> y_true[b][k] = argmax[b][k]]]
        accuracy == [b \in 0..(B - 1) |-> [k \in 0..(L - 1) |-> CastInt(eq[b][k])]]
        m == [b \in 0..(B - 1) |-> [k \in 0..(L - 1) |-> CastInt(mask[b][k])]]
    IN  Div(reduce_sum(accuracy, B, L), reduce_sum(m, B, L))

\* calculate_accuracy: argmax is tf.argmax(y_pred, axis=2)
calculate_accuracy(y_true, argmax, mask, B, L) ==
    LET eq == [b \in 0..(B - 1) |-> [k \in 0..(L - 1) |-> y_true[b][k] = argmax[b][k]]]
        anded == [b \in 0..(B - 1) |-> [k \in 0..(L - 1) |-> mask[b][k] /\ eq[b][k]]]
        accuracy == [b \in 0..(B - 1) |-> [k \in 0..(L - 1) |-> CastInt(anded[b][k])]]
        m == [b \in 0..(B - 1) |-> [k \in 0..(L - 1) |-> CastInt(mask[b][k])]]
    IN  Div(reduce_sum(accuracy, B, L), reduce_sum(m, B, L))

\* the token rows the tokenizer yields for "<start> a .. a <end>" cut after n
\* words: non-zero ids first, zero padding after (n = 0: the empty string)
CaptionRow(n) ==
    [k \in 0..(SEQ_LENGTH - 1) |->
        IF k >= n THEN 0
        ELSE IF k = 0 THEN 3
        ELSE IF k = n - 1 THEN 4
        ELSE 2]

CaptionRows == { CaptionRow(n) : n \in 0..SEQ_LENGTH }

\* batch_seq[:, :-1]
Input(seqs, B) ==
    [b \in 0..(B - 1) |-> [k \in 0..(SEQ_LENGTH - 2) |-> seqs[b][k]]]

\* mutant: the target is not shifted, it is the decoder input
TargetUnshifted(seqs, B) ==
    [b \in 0..(B - 1) |-> [k \in 0..(TargetLen - 1) |-> seqs[b][k]]]

\* batch_seq[:, 1:]
Target(seqs, B) ==
    [b \in 0..(B - 1) |-> [k \in 0..(TargetLen - 1) |-> seqs[b][k + 1]]]

\* tf.math.not_equal(batch_seq_true, 0)
TargetMask(y_true, B) ==
    [b \in 0..(B - 1) |-> [k \in 0..(TargetLen - 1) |-> y_true[b][k] # 0]]

\* per-position cross-entropy values drawn for one row: all zero, all
\* MaxCE, rising and falling along the row
CERows ==
    { [k \in 0..(TargetLen - 1) |-> 0],
      [k \in 0..(TargetLen - 1) |-> MaxCE],
      [k \in 0..(TargetLen - 1) |-> k + 1],
      [k \in 0..(TargetLen - 1) |-> MaxCE * (TargetLen - k)] }

\* the decoder's arg-max drawn for one row with target t: the padding id
\* everywhere, the target everywhere, or one word everywhere
ArgmaxRows(t) ==
    { [k \in 0..(TargetLen - 1) |-> 0],
      [k \in 0..(TargetLen - 1) |-> t[k]],
      [k \in 0..(TargetLen - 1) |-> 2],
      [k \in 0..(TargetLen - 1) |-> 4] }

NoLossIn == [fn |-> "none", B |-> 0, y_true |-> <<>>, mask |-> <<>>, ce |-> <<>>, argmax |-> <<>>]
Pending == [kind |-> "pending", num |-> 0, den |-> 0]

\* no call pending
LossInit ==
    /\ lossIn = NoLossIn
    /\ lossOut = Pending

\* one row of a caption slice with the decoder's output drawn for it
LossRowArgs == { [seq |-> r, ce |-> c] : r \in CaptionRows, c \in CERows }

AccuracyRowArgs ==
    UNION { { [seq |-> r, argmax |-> a] :
                a \in ArgmaxRows([k \in 0..(TargetLen - 1) |-> r[k + 1]]) } :
            r \in CaptionRows }

\* the arguments of one call of calculate_loss, as _compute_caption_loss_and_acc
\* passes them for one caption slice of a batch of B rows
LossCall(B, f) ==
    LET seqs == [b \in 0..(B - 1) |-> f[b].seq]
    IN  [fn |-> "loss", B |-> B, y_true |-> Target(seqs, B),
         mask |-> TargetMask(Target(seqs, B), B),
         ce |-> [b \in 0..(B - 1) |-> f[b].ce], argmax |-> <<>>]

\* the arguments of one call of calculate_accuracy
AccuracyCall(B, f) ==
    LET seqs == [b \in 0..(B - 1) |-> f[b].seq]
    IN  [fn |-> "accuracy", B |-> B, y_true |-> Target(seqs, B),
         mask |-> TargetMask(Target(seqs, B), B),
         ce |-> <<>>, argmax |-> [b \in 0..(B - 1) |-> f[b].argmax]]

\* a call of calculate_loss or calculate_accuracy is about to be made
LossCallInit ==
    /\ \E B \in 1..MaxB :
         \/ \E f \in [0..(B - 1) -> LossRowArgs] : lossIn = LossCall(B, f)
         \/ \E f \in [0..(B - 1) -> AccuracyRowArgs] : lossIn = AccuracyCall(B, f)
    /\ lossOut = Pending

\* calculate_loss
CalculateLoss ==
    /\ lossIn.fn = "loss"
    /\ lossOut = Pending
    /\ lossOut' = calculate_loss(lossIn.ce, lossIn.mask, lossIn.B, TargetLen)
    /\ UNCHANGED lossIn

\* calculate_accuracy
CalculateAccuracy ==
    /\ lossIn.fn = "accuracy"
    /\ lossOut = Pending
    /\ lossOut' = calculate_accuracy(lossIn.y_true, lossIn.argmax, lossIn.mask,
                                     lossIn.B, TargetLen)
    /\ UNCHANGED lossIn

lossVars == <<lossIn, lossOut>>


(***************************************************************************)
(* LRSchedule                                                              *)
(***************************************************************************)
\* a * x on floats, a finite and positive
Mul(a, x) ==
    IF x.kind = "finite" THEN Frac(a.num * x.num, a.den * x.den) ELSE x

\* x <= y on finite floats
FloatLE(x, y) == x.num * y.den <= y.num * x.den

\* post_warmup_learning_rate values drawn; 1e-4 is the rate of the script
Rates == {Frac(1, 10000), Frac(3, 1000)}

\* steps the optimizer counter runs through
MaxStep == 2 * MaxWarmup + 1

\* mutant: the rate keeps growing after the warmup (no switch to the constant)
LRScheduleNoCap(sched, step) ==
    LET global_step == step
        warmup_steps == sched.warmup_steps
        warmup_progress == Div(global_step, warmup_steps)
        warmup_learning_rate == Mul(sched.post_warmup_learning_rate, warmup_progress)
    IN  [step |-> step,
         warmup_progress |-> warmup_progress,
         rate |-> warmup_learning_rate]

\* LRSchedule.__call__: both operands of tf.cond are computed before it
LRScheduleCall(sched, step) ==
    LET global_step == step
        warmup_steps == sched.warmup_steps
        warmup_progress == Div(global_step, warmup_steps)
        warmup_learning_rate == Mul(sched.post_warmup_learning_rate, warmup_progress)
    IN  [step |-> step,
         warmup_progress |-> warmup_progress,
         rate |-> IF global_step < warmup_steps
                  THEN warmup_learning_rate
                  ELSE sched.post_warmup_learning_rate]

NoSchedule == [post_warmup_learning_rate |-> Frac(0, 1), warmup_steps |-> 0]
NoLR == [step |-> -1, warmup_progress |-> Frac(0, 1), rate |-> Frac(0, 1)]

\* no schedule in use
LRInit ==
    /\ lr_schedule = NoSchedule
    /\ iterations = 0
    /\ lr_out = NoLR

\* LRSchedule(post_warmup_learning_rate=T, warmup_steps=W) handed to a fresh
\* optimizer
LRScheduleInit ==
    /\ lr_schedule \in [post_warmup_learning_rate : Rates, warmup_steps : 0..MaxWarmup]
    /\ iterations = 0
    /\ lr_out = NoLR

\* the optimizer evaluates the schedule at its step counter and advances it
LRScheduleStep ==
    /\ iterations <= MaxStep
    /\ lr_out' = LRScheduleCall(lr_schedule, iterations)
    /\ iterations' = iterations + 1
    /\ UNCHANGED lr_schedule

lrVars == <<lr_schedule, iterations, lr_out>>


(***************************************************************************)
(* ImageCaptioningModel.train_step / test_step                             *)
(***************************************************************************)
RECURSIVE GCD(_, _)
GCD(a, b) == IF b = 0 THEN a ELSE GCD(b, a % b)

\* a finite float in lowest terms
Norm(x) ==
    IF x.kind # "finite" THEN x
    ELSE IF x.num = 0 THEN Frac(0, 1)
    ELSE LET g == GCD(x.num, x.den) IN Frac(x.num \div g, x.den \div g)

\* x + y on non-negative floats
Add(x, y) ==
    IF x.kind = "nan" \/ y.kind = "nan" THEN NaN
    ELSE IF x.kind = "inf" \/ y.kind = "inf" THEN Inf
    ELSE Norm(Frac(x.num * y.den + y.num * x.den, x.den * y.den))

\* x / n for an integer n > 0
DivInt(x, n) == IF x.kind = "finite" THEN Norm(Frac(x.num, x.den * n)) ELSE x

\* keras.metrics.Mean
NewMean == [total |-> Frac(0, 1), count |-> 0]
update_state(m, v) == [total |-> Add(m.total, v), count |-> m.count + 1]
\* Mean.result(): total / count, 0 before the first update
tracker_result(m) == IF m.count = 0 THEN Frac(0, 1) ELSE DivInt(m.total, m.count)

\* the decoder's predictions drawn for a forward pass: every position right,
\* or the padding id predicted everywhere
Preds == {"perfect", "allpad"}

PredCE(pred, y_true, B) ==
    [b \in 0..(B - 1) |-> [k \in 0..(TargetLen - 1) |-> IF pred = "perfect" THEN 0 ELSE 1]]

\* the arg-max of the predictions on the rows seqs: at every position the
\* token that follows it in the row, or the padding id
PredArgmax(pred, seqs, B) ==
    [b \in 0..(B - 1) |-> [k \in 0..(SEQ_LENGTH - 2) |->
        IF pred = "perfect" THEN seqs[b][k + 1] ELSE 0]]

\* _compute_caption_loss_and_acc on one caption row (batch of one image):
\* the decoder call it makes, the loss and the accuracy
compute_caption_loss_and_acc(seq, pred) ==
    LET batch == [b \in 0..0 |-> seq]
        batch_seq_inp == Input(batch, 1)
        batch_seq_true == Target(batch, 1)
        mask == TargetMask(batch_seq_true, 1)
        \* the decoder is called on batch_seq_inp, of SEQ_LENGTH - 1 tokens
        L == SEQ_LENGTH - 1
        call == DecoderCall(1, L, Some(mask))
        batch_seq_pred == PredArgmax(pred, batch, 1)
    IN  [decIn |-> [called |-> TRUE, B |-> 1, L |-> L, mask |-> Some(mask)],
         decOut |-> call,
         inp |-> batch_seq_inp,
         true |-> batch_seq_true,
         mask |-> mask,
         pred |-> batch_seq_pred,
         loss |-> Norm(calculate_loss(PredCE(pred, batch_seq_true, 1), mask, 1, TargetLen)),
         acc |-> Norm(calculate_accuracy(batch_seq_true, batch_seq_pred,
                                         mask, 1, TargetLen))]

\* mutant: the gradient is taken of the accumulated batch loss
GradientOfBatchLoss(l, bl) == bl

\* tape.gradient(loss, train_vars): the tensor that is differentiated
GradientTarget(l, bl) == l

Zero == [val |-> Frac(0, 1), of |-> {}]

\* the batches drawn (one image, K captions): captions of different lengths,
\* all of them with words, or one of them the empty string
Batches ==
    { [i \in 0..(NumCaptions - 1) |->
         IF i = e THEN CaptionRow(0)
         ELSE CaptionRow(IF SEQ_LENGTH - i >= 2 THEN SEQ_LENGTH - i ELSE 2)] :
      e \in -1..(NumCaptions - 1) }

TrainInit ==
    /\ step_fn = "none"
    /\ step_pc = "idle"
    /\ batch_seq = <<>>
    /\ cap_i = 0
    /\ batch_loss = Zero
    /\ batch_acc = Frac(0, 1)
    /\ loss = Zero
    /\ weights = 0
    /\ loss_tracker = NewMean
    /\ acc_tracker = NewMean
    /\ step_log = <<>>
    /\ steps_done = 0
    /\ train_steps = 0

\* compile(optimizer=Adam(lr_schedule)): the schedules drawn for training
TrainScheduleInit ==
    /\ lr_schedule \in [post_warmup_learning_rate : {Frac(1, 10000)},
                        warmup_steps : {0, 1, 3}]
    /\ iterations = 0
    /\ lr_out = NoLR

\* train_step up to the loop: augmentation, feature extractor
TrainStep_Begin ==
    /\ step_pc = "idle"
    /\ steps_done < MaxSteps
    /\ batch_seq' \in Batches
    /\ step_fn' = "train"
    /\ step_pc' = "forward"
    /\ cap_i' = 0
    /\ batch_loss' = Zero
    /\ batch_acc' = Frac(0, 1)
    /\ loss' = Zero
    /\ step_log' = <<[op |-> "image_aug"], [op |-> "cnn_model"]>>
    /\ UNCHANGED <<weights, loss_tracker, acc_tracker, steps_done, train_steps>>
    /\ UNCHANGED <<decIn, decOut, lr_schedule, iterations, lr_out>>

\* the body of `with tf.GradientTape()` for caption i
TrainStep_Forward ==
    /\ step_fn = "train"
    /\ step_pc = "forward"
    /\ \E pred \in Preds :
        LET r == compute_caption_loss_and_acc(batch_seq[cap_i], pred)
        IN  /\ decIn' = r.decIn
            /\ decOut' = r.decOut
            /\ loss' = [val |-> r.loss, of |-> {cap_i}]
            /\ batch_loss' = [val |-> Add(batch_loss.val, r.loss),
                              of |-> batch_loss.of \cup {cap_i}]
            /\ batch_acc' = Add(batch_acc, r.acc)
            /\ step_log' = Append(step_log, [op |-> "forward", caption |-> cap_i,
                                             weights |-> weights, training |-> TRUE,
                                             pred |-> pred,
                                             inp |-> r.inp, true |-> r.true,
                                             mask |-> r.mask, argmax |-> r.pred,
                                             acc |-> r.acc])
    /\ step_pc' = "apply"
    /\ UNCHANGED <<step_fn, batch_seq, cap_i, weights, loss_tracker, acc_tracker, steps_done, train_steps>>
    /\ UNCHANGED <<lr_schedule, iterations, lr_out>>

\* mutant: the optimizer's step counter advances once per batch
TrainStep_ApplyOncePerBatch ==
    /\ step_fn = "train"
    /\ step_pc = "apply"
    /\ LET grads == GradientTarget(loss, batch_loss)
       IN  step_log' = Append(step_log, [op |-> "apply", caption |-> cap_i,
                                         weights |-> weights, grads_of |-> grads.of])
    /\ lr_out' = LRScheduleCall(lr_schedule, iterations)
    /\ iterations' = IF cap_i = 0 THEN iterations + 1 ELSE iterations
    /\ weights' = weights + 1
    /\ cap_i' = cap_i + 1
    /\ step_pc' = IF cap_i + 1 < NumCaptions THEN "forward" ELSE "trackers"
    /\ UNCHANGED <<step_fn, batch_seq, batch_loss, batch_acc, loss, loss_tracker,
                   acc_tracker, steps_done, train_steps>>
    /\ UNCHANGED <<decIn, decOut, lr_schedule>>

\* tape.gradient and optimizer.apply_gradients for caption i
TrainStep_Apply ==
    /\ step_fn = "train"
    /\ step_pc = "apply"
    /\ LET grads == GradientTarget(loss, batch_loss)
       IN  step_log' = Append(step_log, [op |-> "apply", caption |-> cap_i,
                                         weights |-> weights, grads_of |-> grads.of])
    /\ lr_out' = LRScheduleCall(lr_schedule, iterations)
    /\ iterations' = iterations + 1
    /\ weights' = weights + 1
    /\ cap_i' = cap_i + 1
    /\ step_pc' = IF cap_i + 1 < NumCaptions THEN "forward" ELSE "trackers"
    /\ UNCHANGED <<step_fn, batch_seq, batch_loss, batch_acc, loss, loss_tracker,
                   acc_tracker, steps_done, train_steps>>
    /\ UNCHANGED <<decIn, decOut, lr_schedule>>

\* after the loop: batch_acc /= K, both trackers updated, metrics returned
TrainStep_End ==
    /\ step_fn = "train"
    /\ step_pc = "trackers"
    /\ batch_acc' = DivInt(batch_acc, NumCaptions)
    /\ loss_tracker' = update_state(loss_tracker, batch_loss.val)
    /\ acc_tracker' = update_state(acc_tracker, batch_acc')
    /\ step_log' = step_log \o <<[op |-> "trackers"],
                                  [op |-> "result",
                                   loss |-> tracker_result(loss_tracker'),
                                   acc |-> tracker_result(acc_tracker')]>>
    /\ step_pc' = "idle"
    /\ steps_done' = steps_done + 1
    /\ train_steps' = train_steps + 1
    /\ UNCHANGED <<step_fn, batch_seq, cap_i, batch_loss, loss, weights>>
    /\ UNCHANGED <<decIn, decOut, lr_schedule, iterations, lr_out>>

\* mutant: test_step augments the images as train_step does
TestStep_BeginAugmented ==
    /\ step_pc = "idle"
    /\ steps_done < MaxSteps
    /\ batch_seq' \in Batches
    /\ step_fn' = "test"
    /\ step_pc' = "forward"
    /\ cap_i' = 0
    /\ batch_loss' = Zero
    /\ batch_acc' = Frac(0, 1)
    /\ loss' = Zero
    /\ step_log' = <<[op |-> "image_aug"], [op |-> "cnn_model"]>>
    /\ UNCHANGED <<weights, loss_tracker, acc_tracker, steps_done, train_steps>>
    /\ UNCHANGED <<decIn, decOut, lr_schedule, iterations, lr_out>>

\* test_step up to the loop: feature extractor only
TestStep_Begin ==
    /\ step_pc = "idle"
    /\ steps_done < MaxSteps
    /\ batch_seq' \in Batches
    /\ step_fn' = "test"
    /\ step_pc' = "forward"
    /\ cap_i' = 0
    /\ batch_loss' = Zero
    /\ batch_acc' = Frac(0, 1)
    /\ loss' = Zero
    /\ step_log' = <<[op |-> "cnn_model"]>>
    /\ UNCHANGED <<weights, loss_tracker, acc_tracker, steps_done, train_steps>>
    /\ UNCHANGED <<decIn, decOut, lr_schedule, iterations, lr_out>>

\* mutant: the trackers are updated inside the loop, once per caption
TestStep_ForwardTracked ==
    /\ step_fn = "test"
    /\ step_pc = "forward"
    /\ \E pred \in Preds :
        LET r == compute_caption_loss_and_acc(batch_seq[cap_i], pred)
        IN  /\ decIn' = r.decIn
            /\ decOut' = r.decOut
            /\ loss' = [val |-> r.loss, of |-> {cap_i}]
            /\ batch_loss' = [val |-> Add(batch_loss.val, r.loss),
                              of |-> batch_loss.of \cup {cap_i}]
            /\ batch_acc' = Add(batch_acc, r.acc)
            /\ step_log' = Append(step_log, [op |-> "forward", caption |-> cap_i,
                                             weights |-> weights, training |-> FALSE,
                                             pred |-> pred,
                                             inp |-> r.inp, true |-> r.true,
                                             mask |-> r.mask, argmax |-> r.pred,
                                             acc |-> r.acc])
            /\ loss_tracker' = update_state(loss_tracker, r.loss)
            /\ acc_tracker' = update_state(acc_tracker, r.acc)
    /\ cap_i' = cap_i + 1
    /\ step_pc' = IF cap_i + 1 < NumCaptions THEN "forward" ELSE "trackers"
    /\ UNCHANGED <<step_fn, batch_seq, weights, steps_done, train_steps>>
    /\ UNCHANGED <<lr_schedule, iterations, lr_out>>

\* one iteration of the loop of test_step
TestStep_Forward ==
    /\ step_fn = "test"
    /\ step_pc = "forward"
    /\ \E pred \in Preds :
        LET r == compute_caption_loss_and_acc(batch_seq[cap_i], pred)
        IN  /\ decIn' = r.decIn
            /\ decOut' = r.decOut
            /\ loss' = [val |-> r.loss, of |-> {cap_i}]
            /\ batch_loss' = [val |-> Add(batch_loss.val, r.loss),
                              of |-> batch_loss.of \cup {cap_i}]
            /\ batch_acc' = Add(batch_acc, r.acc)
            /\ step_log' = Append(step_log, [op |-> "forward", caption |-> cap_i,
                                             weights |-> weights, training |-> FALSE,
                                             pred |-> pred,
                                             inp |-> r.inp, true |-> r.true,
                                             mask |-> r.mask, argmax |-> r.pred,
                                             acc |-> r.acc])
    /\ cap_i' = cap_i + 1
    /\ step_pc' = IF cap_i + 1 < NumCaptions THEN "forward" ELSE "trackers"
    /\ UNCHANGED <<step_fn, batch_seq, weights, loss_tracker, acc_tracker, steps_done, train_steps>>
    /\ UNCHANGED <<lr_schedule, iterations, lr_out>>

\* after the loop of test_step: batch_acc /= K, both trackers updated
TestStep_End ==
    /\ step_fn = "test"
    /\ step_pc = "trackers"
    /\ batch_acc' = DivInt(batch_acc, NumCaptions)
    /\ loss_tracker' = update_state(loss_tracker, batch_loss.val)
    /\ acc_tracker' = update_state(acc_tracker, batch_acc')
    /\ step_log' = step_log \o <<[op |-> "trackers"],
                                  [op |-> "result",
                                   loss |-> tracker_result(loss_tracker'),
                                   acc |-> tracker_result(acc_tracker')]>>
    /\ step_pc' = "idle"
    /\ steps_done' = steps_done + 1
    /\ UNCHANGED train_steps
    /\ UNCHANGED <<step_fn, batch_seq, cap_i, batch_loss, loss, weights>>
    /\ UNCHANGED <<decIn, decOut, lr_schedule, iterations, lr_out>>

trainVars == <<step_fn, step_pc, batch_seq, cap_i, batch_loss, batch_acc, loss, weights,
               loss_tracker, acc_tracker, step_log, steps_done, train_steps>>

(***************************************************************************)
(* map_image_caption                                                       *)
(***************************************************************************)
\* the files of a caption file hold at most this many lines
MaxLines == 3

\* the smallest number of words of a caption that is kept
MinWords == 5

\* Fixed length allowed for any sequence
sequence_length == SEQ_LENGTH

\* the part of a line before "#": the image files named in the caption file
ImageFiles == {"1.jpg", "2.jpg", "3.png"}

\* image_name.endswith("jpg")
EndsWithJpg(image_name) == image_name[2] \in {"1.jpg", "2.jpg"}

\* os.path.join('Flicker8k_Dataset', image_name.split("#")[0].strip())
ImagePath(file) == <<"Flicker8k_Dataset", file>>

\* a caption of n words; caption.strip().split() gives its words
CaptionOf(n) == [k \in 1..n |-> "a"]

\* the captions drawn: one word short, shortest kept, longest kept, one too long
Captions == { CaptionOf(n) : n \in {MinWords - 1, MinWords, sequence_length,
                                     sequence_length + 1} }

\* "<start> " + caption + " <end>"
WithMarkers(cap) == <<"<start>", SP>> \o cap \o <<SP, "<end>">>

\* len(tokens) < 5 or len(tokens) > sequence_length
OutOfRange(tokens) == Len(tokens) < MinWords \/ Len(tokens) > sequence_length

\* mutant: the images of skip_these_images stay in the mapping
KeepSkipped(mapped, skip) == mapped

\* for image_name in skip_these_images: del mapped_captions[image_name]
DeleteSkipped(mapped, skip) == [n \in (DOMAIN mapped) \ skip |-> mapped[n]]

MapInit ==
    /\ caption_data = <<>>
    /\ map_pc = "idle"
    /\ c_i = 1
    /\ mapped_captions = <<>>
    /\ text_data = <<>>
    /\ skip_these_images = {}

\* map_image_caption(filename) has read the lines of the file
MapCallInit ==
    /\ \E n \in 1..MaxLines :
         caption_data \in [1..n -> [image : ImageFiles, caption : Captions]]
    /\ map_pc = "loop"
    /\ c_i = 1
    /\ mapped_captions = <<>>
    /\ text_data = <<>>
    /\ skip_these_images = {}

\* one iteration of `for c_data in caption_data`
MapLine ==
    /\ map_pc = "loop"
    /\ c_i <= Len(caption_data)
    /\ LET image_name == ImagePath(caption_data[c_i].image)
           cap == caption_data[c_i].caption
           tokens == cap
       IN  IF OutOfRange(tokens)
           THEN /\ skip_these_images' = skip_these_images \cup {image_name}
                /\ UNCHANGED <<text_data, mapped_captions>>
           ELSE IF EndsWithJpg(image_name) /\ image_name \notin skip_these_images
           THEN /\ text_data' = Append(text_data, WithMarkers(cap))
                /\ mapped_captions' =
                     IF image_name \in DOMAIN mapped_captions
                     THEN [mapped_captions EXCEPT ![image_name] = Append(@, cap)]
                     ELSE [n \in (DOMAIN mapped_captions) \cup {image_name} |->
                             IF n = image_name THEN <<cap>> ELSE mapped_captions[n]]
                /\ UNCHANGED skip_these_images
           ELSE UNCHANGED <<text_data, mapped_captions, skip_these_images>>
    /\ c_i' = c_i + 1
    /\ UNCHANGED <<caption_data, map_pc>>

\* after the loop: the skipped images are deleted and the mapping is returned
MapReturn ==
    /\ map_pc = "loop"
    /\ c_i > Len(caption_data)
    /\ mapped_captions' = DeleteSkipped(mapped_captions, skip_these_images)
    /\ map_pc' = "returned"
    /\ UNCHANGED <<caption_data, c_i, text_data, skip_these_images>>

mapVars == <<caption_data, map_pc, c_i, mapped_captions, text_data, skip_these_images>>


genVars == <<gen_fn, gen_pc, decoded_caption, loop_i, dec_calls, start_token, result, caption,
             gen_log>>
vars == <<decIn, decOut, gen_fn, gen_pc, decoded_caption, loop_i, dec_calls,
          start_token, result, caption, gen_log, lossIn, lossOut,
          lr_schedule, iterations, lr_out,
          step_fn, step_pc, batch_seq, cap_i, batch_loss, batch_acc, loss, weights,
          loss_tracker, acc_tracker, step_log, steps_done, train_steps,
          caption_data, map_pc, c_i, mapped_captions, text_data, skip_these_images>>

AllInit == DecInit /\ GenInit /\ LossInit /\ LRInit /\ TrainInit /\ MapInit

DecNext ==
    \/ DecoderCallMasked /\ UNCHANGED <<genVars, lossVars, lrVars, trainVars, mapVars>>
    \/ DecoderCallNoMask /\ UNCHANGED <<genVars, lossVars, lrVars, trainVars, mapVars>>

DecSpecInit == DecoderCallInit /\ GenInit /\ LossInit /\ LRInit /\ TrainInit /\ MapInit

SpecDecoder == DecSpecInit /\ [][DecNext]_vars

GenCaptionNext ==
    \/ GenerateCaption_Start /\ UNCHANGED <<lossVars, lrVars, trainVars, mapVars>>
    \/ GenerateCaption_Step /\ UNCHANGED <<lossVars, lrVars, trainVars, mapVars>>
    \/ GenerateCaption_Finish /\ UNCHANGED <<lossVars, lrVars, trainVars, mapVars>>
    \/ GenerateCaptionPath_Start /\ UNCHANGED <<lossVars, lrVars, trainVars, mapVars>>
    \/ GenerateCaptionPath_Step /\ UNCHANGED <<lossVars, lrVars, trainVars, mapVars>>

SpecGen == AllInit /\ [][GenCaptionNext]_vars

LossNext ==
    \/ CalculateLoss /\ UNCHANGED <<decVars, genVars, lrVars, trainVars, mapVars>>
    \/ CalculateAccuracy /\ UNCHANGED <<decVars, genVars, lrVars, trainVars, mapVars>>

LossSpecInit == DecInit /\ GenInit /\ LossCallInit /\ LRInit /\ TrainInit /\ MapInit

SpecLoss == LossSpecInit /\ [][LossNext]_vars

LRNext == LRScheduleStep /\ UNCHANGED <<decVars, genVars, lossVars, trainVars, mapVars>>

LRSpecInit == DecInit /\ GenInit /\ LossInit /\ LRScheduleInit /\ TrainInit /\ MapInit

SpecLR == LRSpecInit /\ [][LRNext]_vars

TrainNext ==
    \/ TrainStep_Begin /\ UNCHANGED <<genVars, lossVars, mapVars>>
    \/ TrainStep_Forward /\ UNCHANGED <<genVars, lossVars, mapVars>>
    \/ TrainStep_Apply /\ UNCHANGED <<genVars, lossVars, mapVars>>
    \/ TrainStep_End /\ UNCHANGED <<genVars, lossVars, mapVars>>
    \/ TestStep_Begin /\ UNCHANGED <<genVars, lossVars, mapVars>>
    \/ TestStep_Forward /\ UNCHANGED <<genVars, lossVars, mapVars>>
    \/ TestStep_End /\ UNCHANGED <<genVars, lossVars, mapVars>>

TrainSpecInit == DecInit /\ GenInit /\ LossInit /\ TrainScheduleInit /\ TrainInit /\ MapInit

SpecTrain == TrainSpecInit /\ [][TrainNext]_vars

\* the non-zero tokens of row are its first n tokens
NonZeroPrefix(row, n) ==
    \A k \in 0..(SEQ_LENGTH - 1) : (row[k] # 0) <=> (k < n)

\* the caption rows drawn for a forward pass: what vectorization gives, any
\* number of word ids followed by padding
TokenRows ==
    { row \in [0..(SEQ_LENGTH - 1) -> {0, 2, 3, 4}] :
        \E n \in 0..SEQ_LENGTH : NonZeroPrefix(row, n) }

\* decoded_caption after the tokens ts have been appended to "<start> "
RECURSIVE DecodedAfter(_)
DecodedAfter(ts) ==
    IF ts = <<>> THEN <<"<start>", SP>>
    ELSE Appended(DecodedAfter(SubSeq(ts, 1, Len(ts) - 1)), index_lookup[ts[Len(ts)]])

\* the caption strings drawn for the greedy loop: the strings the loop builds
\* before its last iteration
CaptionStrings ==
    { DecodedAfter(ts) :
        ts \in UNION { [1..n -> TokenIds \ {4}] : n \in 0..(max_decoded_sentence_length - 1) } }

\* a caption row is about to be passed to _compute_caption_loss_and_acc, or a
\* caption string to an iteration of the greedy loop
MaskRowsInit ==
    /\ DecInit /\ LossInit /\ LRInit /\ MapInit
    /\ \/ \E row \in TokenRows :
            batch_seq = [c \in 0..0 |-> row] /\ decoded_caption = <<>>
       \/ \E str \in CaptionStrings :
            batch_seq = <<>> /\ decoded_caption = str
    /\ gen_fn = "none" /\ gen_pc = "idle" /\ loop_i = 0 /\ dec_calls = 0
    /\ start_token = <<>> /\ result = <<>> /\ caption = <<>> /\ gen_log = <<>>
    /\ step_fn = "none" /\ step_pc = "idle" /\ cap_i = 0
    /\ batch_loss = Zero /\ batch_acc = Frac(0, 1) /\ loss = Zero /\ weights = 0
    /\ loss_tracker = NewMean /\ acc_tracker = NewMean
    /\ step_log = <<>> /\ steps_done = 0 /\ train_steps = 0

\* the decoder call _compute_caption_loss_and_acc makes for the caption row
CaptionForwardCall ==
    /\ ~decIn.called
    /\ DOMAIN batch_seq # {}
    /\ LET r == compute_caption_loss_and_acc(batch_seq[0], "perfect")
       IN  decIn' = r.decIn /\ decOut' = r.decOut

\* the decoder call an iteration of the greedy loop makes for the string
GreedyForwardCall ==
    /\ ~decIn.called
    /\ DOMAIN batch_seq = {}
    /\ decIn' = greedy_decoder_call(decoded_caption).decIn
    /\ decOut' = greedy_decoder_call(decoded_caption).decOut

MaskRowsNext ==
    \/ CaptionForwardCall /\ UNCHANGED <<genVars, lossVars, lrVars, trainVars, mapVars>>
    \/ GreedyForwardCall /\ UNCHANGED <<genVars, lossVars, lrVars, trainVars, mapVars>>

SpecMaskRows == MaskRowsInit /\ [][MaskRowsNext]_vars

MapNext ==
    \/ MapLine /\ UNCHANGED <<decVars, genVars, lossVars, lrVars, trainVars>>
    \/ MapReturn /\ UNCHANGED <<decVars, genVars, lossVars, lrVars, trainVars>>

MapSpecInit == DecInit /\ GenInit /\ LossInit /\ LRInit /\ TrainInit /\ MapCallInit

SpecMap == MapSpecInit /\ [][MapNext]_vars

(***************************************************************************)
(* Properties                                                              *)
(***************************************************************************)
\* C1: for every batch size B >= 1 and length L the causal mask is a
\* B x L x L 0/1 tensor with entry (b, i, j) = 1 iff i >= j, and the slice is
\* the same for every batch element.
C1_CausalMask ==
    decIn.called =>
        LET cm == decOut.causal_mask
            B == decIn.B
            L == decIn.L
        IN  /\ DOMAIN cm = 0..(B - 1)
            /\ \A b \in 0..(B - 1) :
                 /\ DOMAIN cm[b] = 0..(L - 1)
                 /\ \A i \in 0..(L - 1) :
                      /\ DOMAIN cm[b][i] = 0..(L - 1)
                      /\ \A j \in 0..(L - 1) :
                           /\ cm[b][i][j] \in {0, 1}
                           /\ (cm[b][i][j] = 1) <=> (i >= j)
            /\ \A b1, b2 \in 0..(B - 1) : cm[b1] = cm[b2]

\* witness of C1: a call with two batch elements and length 3 has been made
C1_Witness ==
    /\ decIn.called
    /\ decIn.B = 2
    /\ decIn.L = 3
    /\ decOut.causal_mask[1][2][1] = 1
    /\ decOut.causal_mask[1][1][2] = 0

\* C2: a decoder call made without a padding mask completes normally and
\* its self-attention is masked by the causal mask alone.
C2_NoMaskCallCompletes ==
    (decIn.called /\ ~decIn.mask.given) =>
        /\ decOut.status = "ok"
        /\ decOut.self_mask = Some(decOut.causal_mask)

\* C3: a greedy caption loop makes at most SEQ_LENGTH - 1 decoder calls and
\* never ends in an error.
C3_GreedyBounded ==
    gen_fn # "none" =>
        /\ dec_calls <= SEQ_LENGTH - 1
        /\ gen_pc # "error"

\* the valid (non-padding) target positions of the last loss / accuracy call
ValidPositions ==
    { p \in (0..(lossIn.B - 1)) \X (0..(TargetLen - 1)) : lossIn.y_true[p[1]][p[2]] # 0 }

RECURSIVE SumOver(_, _)
SumOver(S, t) ==
    IF S = {} THEN 0
    ELSE LET p == CHOOSE q \in S : TRUE
         IN  t[p[1]][p[2]] + SumOver(S \ {p}, t)

\* C4: calculate_loss is the sum of the cross-entropy over the non-padding
\* target positions divided by their number; without padding it is the plain
\* mean over all positions.
C4_MaskedLoss ==
    (lossIn.fn = "loss" /\ lossOut # Pending /\ ValidPositions # {}) =>
        LET all == (0..(lossIn.B - 1)) \X (0..(TargetLen - 1))
        IN  /\ FloatEq(lossOut, Frac(SumOver(ValidPositions, lossIn.ce),
                                     Cardinality(ValidPositions)))
            /\ (ValidPositions = all =>
                    FloatEq(lossOut, Frac(SumOver(all, lossIn.ce),
                                          lossIn.B * TargetLen)))

\* witness of C4: a loss was computed over a batch that has a padding position
\* with a non-zero cross-entropy and a valid position with a non-zero one
C4_Witness ==
    /\ lossIn.fn = "loss"
    /\ lossOut.kind = "finite"
    /\ lossOut.num > 0
    /\ \E b \in 0..(lossIn.B - 1), k \in 0..(TargetLen - 1) :
            lossIn.y_true[b][k] = 0 /\ lossIn.ce[b][k] > 0

\* the valid positions whose arg-max equals the target token
CorrectPositions ==
    { p \in ValidPositions : lossIn.argmax[p[1]][p[2]] = lossIn.y_true[p[1]][p[2]] }

\* C5: calculate_accuracy is (valid positions whose arg-max equals the
\* target) / (valid positions); it lies in [0, 1], and with one valid position
\* it is exactly 0 or 1 according to the match there.
C5_MaskedAccuracy ==
    (lossIn.fn = "accuracy" /\ lossOut # Pending /\ ValidPositions # {}) =>
        /\ FloatEq(lossOut, Frac(Cardinality(CorrectPositions),
                                 Cardinality(ValidPositions)))
        /\ lossOut.kind = "finite"
        /\ 0 <= lossOut.num
        /\ lossOut.num <= lossOut.den
        /\ (Cardinality(ValidPositions) = 1 =>
                IF CorrectPositions # {}
                THEN lossOut.num = lossOut.den
                ELSE lossOut.num = 0)

\* witness of C5: an accuracy was computed where the arg-max equals the target
\* at a padding position and misses it at a valid one
C5_Witness ==
    /\ lossIn.fn = "accuracy"
    /\ lossOut.kind = "finite"
    /\ \E b \in 0..(lossIn.B - 1), k \in 0..(TargetLen - 1) :
            lossIn.y_true[b][k] = 0 /\ lossIn.argmax[b][k] = 0
    /\ CorrectPositions # ValidPositions
    /\ CorrectPositions # {}

\* C6: when the target is entirely padding the loss and the accuracy are
\* guarded: no division by zero, the result is zero.
C6_AllPaddingGuarded ==
    (lossIn.fn # "none" /\ lossOut # Pending /\ ValidPositions = {}) =>
        /\ lossOut.kind = "finite"
        /\ lossOut.num = 0

\* the value part of C7: T * step / W while step < W, exactly T from step W
\* on, 0 at step 0, never above T
C7_InRange ==
    (lr_out.step >= 0 /\ lr_schedule.warmup_steps > 0) =>
        LET T == lr_schedule.post_warmup_learning_rate
            W == lr_schedule.warmup_steps
            step == lr_out.step
        IN  /\ lr_out.rate.kind = "finite"
            /\ (step < W => FloatEq(lr_out.rate, Frac(T.num * step, T.den * W)))
            /\ (step >= W => lr_out.rate = T)
            /\ (step = 0 => lr_out.rate.num = 0)
            /\ FloatLE(lr_out.rate, T)

\* the step part of C7: the next evaluation is not below this one
C7_NoDecrease ==
    (lr_out.step >= 0 /\ lr_schedule.warmup_steps > 0) =>
        /\ lr_out'.step >= lr_out.step
        /\ FloatLE(lr_out.rate, lr_out'.rate)

\* C7: the two parts together: warmup T * step / W, then constant T, never
\* above T, never decreasing.
C7_WarmupThenConstant == [](C7_InRange) /\ [][C7_NoDecrease]_vars

\* witness of C7: W = 100, T = 1e-4, the schedule was evaluated at step 200 and
\* gave 1e-4
C7_Witness ==
    /\ lr_schedule.warmup_steps = 100
    /\ lr_schedule.post_warmup_learning_rate = Frac(1, 10000)
    /\ lr_out.step = 200
    /\ lr_out.rate = Frac(1, 10000)

\* C8: with warmup_steps = 0 no division by zero is performed and the rate
\* is the target rate at every step.
C8_ZeroWarmupNoDivision ==
    (lr_out.step >= 0 /\ lr_schedule.warmup_steps = 0) =>
        /\ lr_out.warmup_progress.kind = "finite"
        /\ lr_out.rate = lr_schedule.post_warmup_learning_rate

\* C9: the caption a greedy loop produces holds neither marker and has no
\* leading or trailing blank.
C9_CaptionStripped ==
    gen_pc = "done" =>
        /\ \A k \in 1..Len(caption) : caption[k] \notin {"<start>", "<end>"}
        /\ (caption # <<>> => caption[1] # SP /\ caption[Len(caption)] # SP)

\* the forward and apply entries of the running step, in order
IsSubStep(e) == e.op \in {"forward", "apply"}
SubSteps == SelectSeq(step_log, IsSubStep)

\* C10: one train_step makes exactly K optimizer-apply calls, one per
\* caption in caption order, each after that caption's forward pass and before
\* the next caption's, which sees the updated parameters; each apply uses the
\* gradient of that caption's loss only.
C10_PerCaptionSubSteps ==
    step_fn = "train" =>
        /\ \A n \in 1..Len(SubSteps) :
             /\ SubSteps[n].caption = (n - 1) \div 2
             /\ SubSteps[n].op = IF n % 2 = 1 THEN "forward" ELSE "apply"
             /\ (SubSteps[n].op = "apply" =>
                    /\ SubSteps[n].grads_of = {SubSteps[n].caption}
                    /\ SubSteps[n].weights = SubSteps[n - 1].weights)
             /\ (SubSteps[n].op = "forward" /\ n > 2 =>
                    SubSteps[n].weights = SubSteps[n - 2].weights + 1)
        /\ (step_pc \in {"trackers", "idle"} => Len(SubSteps) = 2 * NumCaptions)

\* witness of C10: a second train_step has finished with all its sub-steps
C10_Witness ==
    /\ step_fn = "train"
    /\ step_pc = "idle"
    /\ steps_done = 2
    /\ Len(SubSteps) = 2 * NumCaptions
    /\ weights >= NumCaptions
    /\ SubSteps[Len(SubSteps)].op = "apply"

\* the forward entries of the running step, in caption order
IsForward(e) == e.op = "forward"
Forwards == SelectSeq(step_log, IsForward)

\* the sum of the per-caption losses (accuracies) of the first n forward passes,
\* each computed by _compute_caption_loss_and_acc on its caption slice
RECURSIVE LoopLoss(_)
LoopLoss(n) ==
    IF n = 0 THEN Frac(0, 1)
    ELSE Add(LoopLoss(n - 1),
             compute_caption_loss_and_acc(batch_seq[Forwards[n].caption],
                                          Forwards[n].pred).loss)

RECURSIVE LoopAcc(_)
LoopAcc(n) ==
    IF n = 0 THEN Frac(0, 1)
    ELSE Add(LoopAcc(n - 1),
             compute_caption_loss_and_acc(batch_seq[Forwards[n].caption],
                                          Forwards[n].pred).acc)

\* the batch loss and accuracy of the running step are what the per-caption
\* procedure gives: one forward pass per caption in caption order, the losses
\* summed and the accuracies averaged over the K captions
PerCaptionProcedure ==
    /\ \A n \in 1..Len(Forwards) : Forwards[n].caption = n - 1
    /\ (step_pc \in {"forward", "apply", "trackers"} =>
            /\ batch_loss.val = LoopLoss(Len(Forwards))
            /\ batch_acc = LoopAcc(Len(Forwards)))
    /\ (step_pc \in {"trackers", "idle"} => Len(Forwards) = NumCaptions)
    /\ (step_pc = "idle" =>
            /\ batch_loss.val = LoopLoss(NumCaptions)
            /\ batch_acc = DivInt(LoopAcc(NumCaptions), NumCaptions))

C11_NoAugmentNoApply ==
    /\ (step_fn = "test" =>
            \A n \in 1..Len(step_log) : step_log[n].op \notin {"image_aug", "apply"})
    /\ (step_fn \in {"train", "test"} => PerCaptionProcedure)

C11_Frame ==
    step_fn' = "test" =>
        /\ weights' = weights
        /\ iterations' = iterations
        /\ lr_schedule' = lr_schedule
        /\ lr_out' = lr_out
        /\ (step_pc # "trackers" =>
                loss_tracker' = loss_tracker /\ acc_tracker' = acc_tracker)

\* C11: test_step changes no parameter and leaves the optimizer step counter
\* alone, augments no image, and computes the batch loss and accuracy by the
\* per-caption procedure train_step uses; only the two trackers change.
C11_TestStepFrame == [](C11_NoAugmentNoApply) /\ [][C11_Frame]_vars

\* witness of C11: a test_step has finished after a train_step moved the
\* parameters and the step counter
C11_Witness ==
    /\ step_fn = "test"
    /\ step_pc = "idle"
    /\ steps_done = 2
    /\ weights = NumCaptions
    /\ iterations = NumCaptions
    /\ loss_tracker.count = 2
    /\ Len(Forwards) = NumCaptions

\* the image of line k and whether its caption is out of the length range
LineImage(k) == ImagePath(caption_data[k].image)
LineDropped(k) == OutOfRange(caption_data[k].caption)

\* C12: an image with a caption out of the length range is absent from the
\* returned mapping, wherever that caption stands among the image's lines, and
\* every caption in the returned mapping is within the length range.
C12_DroppedImageExcluded ==
    map_pc = "returned" =>
        /\ \A k \in 1..Len(caption_data) :
             LineDropped(k) => LineImage(k) \notin DOMAIN mapped_captions
        /\ \A image \in DOMAIN mapped_captions :
             \A n \in 1..Len(mapped_captions[image]) :
                /\ ~OutOfRange(mapped_captions[image][n])
                /\ \E k \in 1..Len(caption_data) :
                     LineImage(k) = image /\ caption_data[k].caption = mapped_captions[image][n]

\* witness of C12: a file whose first line is a valid caption of an image that
\* a later line drops, and another image that is kept
C12_Witness ==
    /\ map_pc = "returned"
    /\ Len(caption_data) = 3
    /\ ~LineDropped(1) /\ LineDropped(2) /\ LineImage(1) = LineImage(2)
    /\ WithMarkers(caption_data[1].caption) \in {text_data[k] : k \in 1..Len(text_data)}
    /\ LineImage(3) \in DOMAIN mapped_captions

\* C13: with a padding mask, the self-attention mask allows (query i, key j)
\* of batch element b exactly when i >= j and key j is valid in b's padding mask.
C13_SelfAttentionMask ==
    (decIn.called /\ decIn.mask.given) =>
        /\ decOut.self_mask.given
        /\ \A b \in 0..(decIn.B - 1) : \A i \in 0..(decIn.L - 1) : \A j \in 0..(decIn.L - 1) :
             (decOut.self_mask.val[b][i][j] = 1) <=> (i >= j /\ decIn.mask.val[b][j])
        /\ \A b \in 0..(decIn.B - 1) : \A i \in 0..(decIn.L - 1) : \A j \in 0..(decIn.L - 1) :
             decOut.self_mask.val[b][i][j] \in {0, 1}

\* witness of C13: a call on two rows with different padding masks, one of them
\* with a padded key before a valid one
C13_Witness ==
    /\ decIn.called /\ decIn.mask.given
    /\ decIn.B = 2 /\ decIn.L >= 2
    /\ ~decIn.mask.val[0][0] /\ decIn.mask.val[0][1]
    /\ decIn.mask.val[1][0] /\ ~decIn.mask.val[1][1]
    /\ decOut.self_mask.val[0][1][0] = 0
    /\ decOut.self_mask.val[0][1][1] = 1
    /\ decOut.self_mask.val[1][1][0] = 1

\* C14: the cross-attention mask allows (query i, key j) according to key j
\* alone: it is the same for every query position i.
C14_CrossMaskByKey ==
    (decIn.called /\ decIn.mask.given) =>
        \A b \in 0..(decIn.B - 1) : \A j \in 0..(NumPositions - 1) :
            \A i1, i2 \in 0..(decIn.L - 1) :
                decOut.cross_mask.val[b][i1][j] = decOut.cross_mask.val[b][i2][j]

\* the tracker updates and the metric reads the running step has made
IsTrackerUpdate(e) == e.op = "trackers"
IsResultRead(e) == e.op = "result"
TrackerUpdates == Len(SelectSeq(step_log, IsTrackerUpdate))
ResultReads == Len(SelectSeq(step_log, IsResultRead))

\* C15: each tracker is updated once per caption sub-step, K times in a step,
\* and read once at the end of the step.
C15_UpdatedPerSubStep ==
    (step_fn # "none" /\ step_pc = "idle") =>
        /\ loss_tracker.count = NumCaptions * steps_done
        /\ acc_tracker.count = NumCaptions * steps_done
        /\ ResultReads = 1

C15_OncePerStepState ==
    /\ loss_tracker.count = steps_done
    /\ acc_tracker.count = steps_done
    /\ (step_fn # "none" =>
            /\ TrackerUpdates = (IF step_pc = "idle" THEN 1 ELSE 0)
            /\ ResultReads = (IF step_pc = "idle" THEN 1 ELSE 0))
    /\ (step_fn # "none" /\ step_pc = "idle" =>
            /\ step_log[Len(step_log)].op = "result"
            /\ step_log[Len(step_log)].loss = tracker_result(loss_tracker)
            /\ step_log[Len(step_log)].acc = tracker_result(acc_tracker)
            /\ step_log[Len(step_log) - 1].op = "trackers")

C15_OncePerStepAction ==
    (loss_tracker' # loss_tracker \/ acc_tracker' # acc_tracker) =>
        /\ step_pc = "trackers" /\ step_pc' = "idle"
        /\ Len(Forwards) = NumCaptions
        /\ loss_tracker' = update_state(loss_tracker, batch_loss.val)
        /\ acc_tracker' = update_state(acc_tracker, batch_acc')

\* C15 as amended: each tracker is updated once per step, after the K caption
\* sub-steps, with the batch loss and the mean batch accuracy, and read once
\* at the end of the step.
C15_UpdatedOncePerStep == [](C15_OncePerStepState) /\ [][C15_OncePerStepAction]_vars

\* witness of C15: two steps of K captions each have finished and each tracker
\* holds two updates
C15_Witness ==
    /\ step_fn # "none" /\ step_pc = "idle"
    /\ NumCaptions > 1
    /\ steps_done = 2
    /\ Len(Forwards) = NumCaptions
    /\ loss_tracker.count = 2 /\ acc_tracker.count = 2
    /\ ResultReads = 1

\* the positions of row t, a tensor of one row
Positions(t) == DOMAIN t[0]

\* the number of query positions, of them the ones right, over one caption
\* when the prediction at position i is compared with token i + 1 of seq
ScoredPositions(seq) == { i \in 0..(SEQ_LENGTH - 2) : seq[i + 1] # 0 }
RightPositions(seq, argmax) == { i \in ScoredPositions(seq) : argmax[0][i] = seq[i + 1] }

\* C16: for a caption of n tokens the decoder input is tokens 0..n-2, the
\* target is tokens 1..n-1, the mask marks position i iff token i + 1 is
\* non-zero, the prediction at position i is scored against token i + 1, and
\* input, target, mask and prediction all have n - 1 positions.
C16_TeacherForcingShift ==
    \A m \in 1..Len(Forwards) :
        LET e == Forwards[m]
            seq == batch_seq[e.caption]
            n == SEQ_LENGTH
        IN  /\ Positions(e.inp) = 0..(n - 2)
            /\ Positions(e.true) = 0..(n - 2)
            /\ Positions(e.mask) = 0..(n - 2)
            /\ Positions(e.argmax) = 0..(n - 2)
            /\ \A i \in 0..(n - 2) :
                 /\ e.inp[0][i] = seq[i]
                 /\ e.true[0][i] = seq[i + 1]
                 /\ e.mask[0][i] = (seq[i + 1] # 0)
            /\ (ScoredPositions(seq) # {} =>
                    FloatEq(e.acc, Frac(Cardinality(RightPositions(seq, e.argmax)),
                                        Cardinality(ScoredPositions(seq)))))
            /\ (m = Len(Forwards) /\ step_pc \in {"apply", "forward", "trackers"} =>
                    decIn.called /\ decIn.L = n - 1 /\ decIn.mask = Some(e.mask))

\* witness of C16: a forward pass on a caption with words and padding whose
\* input and target differ at a scored position, predicted right everywhere
C16_Witness ==
    /\ Len(Forwards) >= 1
    /\ LET e == Forwards[Len(Forwards)]
           seq == batch_seq[e.caption]
       IN  /\ e.pred = "perfect"
           /\ seq[SEQ_LENGTH - 1] = 0
           /\ \E i \in 0..(SEQ_LENGTH - 2) : seq[i + 1] # 0 /\ seq[i] # seq[i + 1]
           /\ e.acc = Frac(1, 1)

\* the calls of one model part in gen_log
CallsOf(part) == { k \in 1..Len(gen_log) : gen_log[k].op = part }

\* C17: a greedy caption loop runs the feature extractor once and the encoder
\* once, both before the first decoder call, and every decoder call receives
\* the output of that one encoder call.
C17_ExtractOnceEncodeOnce ==
    (gen_fn # "none" /\ dec_calls > 0) =>
        /\ Cardinality(CallsOf("cnn_model")) = 1
        /\ Cardinality(CallsOf("encoder")) = 1
        /\ \A d \in CallsOf("decoder") :
             /\ \A k \in CallsOf("cnn_model") \cup CallsOf("encoder") : k < d
             /\ \A k \in CallsOf("encoder") : gen_log[d].encoder_outputs = gen_log[k].out

\* the token ids the decoder calls of the running loop have emitted, in order
RECURSIVE EmittedUpTo(_)
EmittedUpTo(k) ==
    IF k = 0 THEN <<>>
    ELSE IF gen_log[k].op = "decoder" THEN Append(EmittedUpTo(k - 1), gen_log[k].sampled_token_index)
    ELSE EmittedUpTo(k - 1)
Emitted == EmittedUpTo(Len(gen_log))

\* the partial sequence the next iteration hands to the decoder
PartialSequence ==
    LET full == vectorization(decoded_caption)
    IN  [k \in 0..(SEQ_LENGTH - 2) |-> full[k]]

\* C18: at iteration i of the greedy loop the partial sequence holds the start
\* marker and every token emitted so far, the padding id included, and exactly
\* i + 1 non-padding tokens, so position i is the last non-padding position.
C18_PartialSequenceAligned ==
    (gen_fn = "sample" /\ gen_pc = "loop") =>
        /\ Len(Emitted) = loop_i
        /\ PartialSequence[0] = 3
        /\ \A k \in 1..loop_i : PartialSequence[k] = Emitted[k]
        /\ Cardinality({ k \in 0..(SEQ_LENGTH - 2) : PartialSequence[k] # 0 }) = loop_i + 1
        /\ PartialSequence[loop_i] # 0
        /\ \A k \in (loop_i + 1)..(SEQ_LENGTH - 2) : PartialSequence[k] = 0

\* the caption of the decoder call is one the claim covers: a training row
\* whose non-zero tokens are a prefix of two or more, or a partial sequence of
\* the greedy loop that begins with the start marker
C19_Covered ==
    \/ /\ DOMAIN batch_seq # {}
       /\ \E n \in 2..SEQ_LENGTH : NonZeroPrefix(batch_seq[0], n)
    \/ /\ DOMAIN batch_seq = {}
       /\ vectorization(decoded_caption)[0] = 3

\* C19: for a training caption whose non-zero tokens are a prefix of length
\* two or more and for a partial sequence that begins with the start marker,
\* every query row of the combined self-attention mask allows a key.
C19_NoEmptyMaskRow ==
    (decIn.called /\ C19_Covered) =>
        /\ decOut.self_mask.given
        /\ \A i \in 0..(decIn.L - 1) : \E j \in 0..(decIn.L - 1) :
             decOut.self_mask.val[0][i][j] = 1

\* witness of C19: the shortest training caption, whose last query row is
\* left with the first key only
C19_Witness ==
    /\ decIn.called
    /\ DOMAIN batch_seq # {}
    /\ NonZeroPrefix(batch_seq[0], 2)
    /\ decIn.L = SEQ_LENGTH - 1
    /\ decOut.self_mask.val[0][decIn.L - 1][0] = 1
    /\ \A j \in 1..(decIn.L - 1) : decOut.self_mask.val[0][decIn.L - 1][j] = 0

\* the smallest number of batches whose sub-steps cover w optimizer steps
CeilDiv(w, k) == (w + k - 1) \div k

\* the rate the optimizer would use at its next step
NextRate == LRScheduleCall(lr_schedule, iterations).rate

C20_CounterState ==
    /\ iterations = train_steps * NumCaptions
                    + (IF step_fn = "train" /\ step_pc # "idle" THEN cap_i ELSE 0)
    /\ (step_pc = "idle" =>
            /\ iterations = train_steps * NumCaptions
            /\ (train_steps >= CeilDiv(lr_schedule.warmup_steps, NumCaptions) =>
                    /\ iterations >= lr_schedule.warmup_steps
                    /\ NextRate = lr_schedule.post_warmup_learning_rate)
            /\ (train_steps < CeilDiv(lr_schedule.warmup_steps, NumCaptions) =>
                    iterations < lr_schedule.warmup_steps))

C20_TestKeepsCounter == step_fn' = "test" => iterations' = iterations

\* C20: after n train_step calls the optimizer step counter is n * K, so a
\* warmup of W steps is over after ceil(W / K) batches and not before;
\* test_step never advances the counter.
C20_CounterPerSubStep == [](C20_CounterState) /\ [][C20_TestKeepsCounter]_vars

\* witness of C20: two train_step calls have finished and the warmup of three
\* steps has ended with the second of them
C20_Witness ==
    /\ step_pc = "idle"
    /\ train_steps = 2
    /\ NumCaptions > 1
    /\ lr_schedule.warmup_steps = 3
    /\ iterations = 2 * NumCaptions
    /\ lr_out.step = iterations - 1

====
